---- MODULE Spec2Model ----
(***************************************************************************)
(* Model of uniplot.plot (src/uniplot/uniplot.py): the render loop and the *)
(* interactive viewport state machine that maps keystrokes to new bounds.  *)
(*                                                                         *)
(* options.x_min, x_max, y_min, y_max are Python floats.  The model keeps  *)
(* the floating-point semantics of the arithmetic (binary significand of   *)
(* Precision bits, round to nearest with ties to even, gradual underflow,  *)
(* overflow to infinity, NaN) at a reduced width: a finite value is an     *)
(* integer count of the smallest positive number of the format.            *)
(***************************************************************************)
EXTENDS Integers, Sequences, FiniteSets, TLC

(* ------------------------------ bounds --------------------------------- *)
Precision == 10     \* bits of the significand (53 in the program)
MaxExp == 10        \* largest exponent of the format (2046 in the program)
MaxKeys == 3        \* non-quit keys read in one session

(* ---------------------- floating-point arithmetic ---------------------- *)
Pow2(k) == 2 ^ k

Abs(n) == IF n < 0 THEN -n ELSE n

MaxFinite == (Pow2(Precision) - 1) * Pow2(MaxExp)
PosInf == MaxFinite + 1
NegInf == -PosInf
NaN == PosInf + 1

IsFinite(a) == a >= -MaxFinite /\ a <= MaxFinite

\* a value of the format: at most Precision significant bits
Representable(n) ==
    \E e \in 0..MaxExp : Abs(n) % Pow2(e) = 0 /\ Abs(n) \div Pow2(e) < Pow2(Precision)

\* exponent at which mag/d has at most Precision integer bits
RECURSIVE ExpOf(_, _, _)
ExpOf(mag, d, e) ==
    IF mag \div (Pow2(e) * d) < Pow2(Precision) THEN e ELSE ExpOf(mag, d, e + 1)

\* the rational n/d (d > 0) rounded to nearest, ties to even
RoundRat(n, d) ==
    LET mag == Abs(n)
        e == ExpOf(mag, d, 0)
        den == Pow2(e) * d
        q == mag \div den
        r == mag % den
        m == IF 2 * r > den \/ (2 * r = den /\ q % 2 = 1) THEN q + 1 ELSE q
        val == m * Pow2(e)
    IN  IF val > MaxFinite THEN (IF n < 0 THEN NegInf ELSE PosInf)
        ELSE IF n < 0 THEN -val ELSE val

FAdd(a, b) ==
    IF a = NaN \/ b = NaN THEN NaN
    ELSE IF a = PosInf THEN (IF b = NegInf THEN NaN ELSE PosInf)
    ELSE IF a = NegInf THEN (IF b = PosInf THEN NaN ELSE NegInf)
    ELSE IF b = PosInf \/ b = NegInf THEN b
    ELSE RoundRat(a + b, 1)

FNeg(a) == IF a = NaN THEN NaN ELSE -a

\* variant of FSub: the operands are taken in the other order
FSubReversed(a, b) == FAdd(b, FNeg(a))

FSub(a, b) == FAdd(a, FNeg(b))

\* the literal 0.1 in the format: TenthNum / TenthDen
TenthDen == Pow2(Precision + 3)
TenthNum == RoundRat(TenthDen, 10)

\* the largest power of two dividing both n and d
RECURSIVE CommonPow2(_, _)
CommonPow2(n, d) ==
    IF n # 0 /\ n % 2 = 0 /\ d % 2 = 0 THEN 2 * CommonPow2(n \div 2, d \div 2) ELSE 1

\* 0.1 * a: the exact product a * TenthNum / TenthDen, in lowest terms, rounded
FMulTenth(a) ==
    IF a = NaN \/ a = PosInf \/ a = NegInf THEN a
    ELSE LET g == CommonPow2(Abs(a), TenthDen)
         IN  RoundRat((a \div g) * TenthNum, TenthDen \div g)

\* a < b on floats (false when either is NaN)
FLess(a, b) == a # NaN /\ b # NaN /\ a < b

(* ------------------------------- keys ---------------------------------- *)
LowerKeys == {"h", "j", "k", "l", "u", "n", "r", "q", "ESC", "x"}
UpperKeys == {"H", "J", "K", "L", "U", "N", "R", "Q"}
Keys == LowerKeys \cup UpperKeys

\* variant of lower: the key is compared as typed
lowerIdentity(c) == c

\* str.lower()
lower(c) ==
    CASE c = "H" -> "h" [] c = "J" -> "j" [] c = "K" -> "k" [] c = "L" -> "l"
      [] c = "U" -> "u" [] c = "N" -> "n" [] c = "R" -> "r" [] c = "Q" -> "q"
      [] OTHER -> c

(* ------------------------------ state ---------------------------------- *)
VARIABLES
    pc,                 \* "validate", "raised", "start", "loop", "getch", "done"
    xs, ys,             \* the arguments of plot: one sequence of values per series
    series,             \* MultiSeries(xs, ys) once constructed
    error,              \* the validation failure raised, "none" if none
    continue_looping,
    loop_iteration,
    x_min, x_max, y_min, y_max,     \* options.* (Bounds)
    reset_target,       \* Bounds kept by Options for reset_view()
    interactive, width, height, legend_labels, title,
    out,                \* lines printed by the latest loop iteration
    title_out,          \* title lines printed
    erased,             \* argument of the latest erase_previous_lines, -1 if none
    renders,            \* loop iterations rendered
    rendered,           \* what each render drew from: Bounds, grid size, series
    lit,                \* sub-pixels set by the latest render
    x_ticks, y_ticks,   \* tick sets of the latest render
    raw_key,            \* what the latest getch() returned, "" before the first
    keys,               \* key_pressed of every iteration so far
    hist                \* Bounds at session start and after each key

vars == <<pc, xs, ys, series, error, continue_looping, loop_iteration,
          x_min, x_max, y_min, y_max,
          reset_target, interactive, width, height, legend_labels, title,
          out, title_out, erased, renders, rendered, lit, x_ticks, y_ticks,
          raw_key, keys, hist>>

bounds == <<x_min, x_max, y_min, y_max>>
config == <<interactive, width, height, legend_labels, title, reset_target,
            xs, ys>>
screen == <<out, erased, renders, rendered, lit, x_ticks, y_ticks>>

Bounds == [x_min |-> x_min, x_max |-> x_max, y_min |-> y_min, y_max |-> y_max]

NoLegend == -1

NoXs == <<>>          \* xs = None
NoSeries == [xs |-> <<>>, ys |-> <<>>]     \* MultiSeries not constructed yet
NoTicks == [m |-> 0, k |-> 0, first |-> 0, last |-> -1]  \* no tick set

\* (interactive, width, height, legend_labels, title, number of series,
\*  xs: "given", "none" or "short"); the last four fail validation
InitConfigs ==
    { <<TRUE, 2, 1, NoLegend, FALSE, 1, "given">>,
      <<TRUE, 3, 2, 2, TRUE, 2, "given">>,
      <<FALSE, 2, 10, NoLegend, TRUE, 1, "none">>,
      <<FALSE, 3, 2, 1, FALSE, 1, "given">>,
      <<FALSE, 3, 2, 2, TRUE, 1, "given">>,
      <<TRUE, 0, 2, NoLegend, TRUE, 1, "given">>,
      <<TRUE, 2, 1, NoLegend, TRUE, 2, "short">>,
      <<FALSE, 2, -1, 3, TRUE, 1, "given">> }

\* (x range, y range) pairs of the sessions explored
InitBounds ==
    { <<<<0, 10240>>, <<0, 10000>>>>,
      <<<<0, 10000>>, <<1024, 1032>>>>,
      <<<<1024, 1032>>, <<-3000, 5000>>>>,
      <<<<-3000, 5000>>, <<-MaxFinite, MaxFinite>>>>,
      <<<<-MaxFinite, MaxFinite>>, <<0, 10240>>>>,
      <<<<0, 10>>, <<0, 100>>>> }

\* the data of a session: the first series holds the corner points
\* (x_min, y_max) and (x_max, y_min) of the initial Bounds, a second series
\* the point (x_min, y_min)
InitYs(b, n) ==
    IF n = 1 THEN << <<b[2][2], b[2][1]>> >>
    ELSE << <<b[2][2], b[2][1]>>, <<b[2][1]>> >>

InitXs(b, n, mode) ==
    CASE mode = "none" -> NoXs
      [] mode = "short" -> << <<b[1][1], b[1][2]>> >>
      [] OTHER -> IF n = 1 THEN << <<b[1][1], b[1][2]>> >>
                  ELSE << <<b[1][1], b[1][2]>>, <<b[1][1]>> >>

Init ==
    /\ \E b \in InitBounds, c \in InitConfigs :
          /\ x_min = b[1][1] /\ x_max = b[1][2]
          /\ y_min = b[2][1] /\ y_max = b[2][2]
          /\ interactive = c[1] /\ width = c[2] /\ height = c[3]
          /\ legend_labels = c[4] /\ title = c[5]
          /\ ys = InitYs(b, c[6])
          /\ xs = InitXs(b, c[6], c[7])
    /\ series = NoSeries
    /\ error = "none"
    /\ reset_target = Bounds
    /\ hist = <<Bounds>>
    /\ keys = <<>>
    /\ raw_key = ""
    /\ pc = "validate"
    /\ continue_looping = TRUE
    /\ loop_iteration = 0
    /\ out = <<>>
    /\ title_out = 0
    /\ erased = -1
    /\ renders = 0
    /\ rendered = <<>>
    /\ lit = {}
    /\ x_ticks = NoTicks
    /\ y_ticks = NoTicks

(* --------------------------- input validation -------------------------- *)
\* xs and ys are both supplied with differing series counts or lengths
ShapeError ==
    /\ xs # NoXs
    /\ \/ Len(xs) # Len(ys)
       \/ \E i \in 1..Len(ys) : Len(xs[i]) # Len(ys[i])

\* the failures of the option validation
OptionErrors ==
    (IF width <= 0 \/ height <= 0 THEN {"InvalidDimension"} ELSE {})
    \cup (IF legend_labels # NoLegend /\ legend_labels # Len(ys)
          THEN {"LabelCountMismatch"} ELSE {})

\* line 23: x defaults to the 0-based index within each series
MultiSeries(x, y) ==
    [xs |-> IF x = NoXs
            THEN [i \in 1..Len(y) |-> [j \in 1..Len(y[i]) |-> j - 1]]
            ELSE x,
     ys |-> y]

\* variant of Validate: the options are not validated
ValidateSeriesOnly ==
    /\ pc = "validate"
    /\ IF ShapeError
       THEN /\ error' = "ShapeMismatch"
            /\ series' = series
            /\ pc' = "raised"
       ELSE /\ series' = MultiSeries(xs, ys)
            /\ error' = "none" /\ pc' = "start"
    /\ UNCHANGED <<continue_looping, loop_iteration, bounds, config, screen,
                   title_out, raw_key, keys, hist>>

\* lines 23-24: the series are built, then the options are validated
Validate ==
    /\ pc = "validate"
    /\ IF ShapeError
       THEN /\ error' = "ShapeMismatch"
            /\ series' = series
            /\ pc' = "raised"
       ELSE /\ series' = MultiSeries(xs, ys)
            /\ IF OptionErrors = {}
               THEN error' = "none" /\ pc' = "start"
               ELSE error' \in OptionErrors /\ pc' = "raised"
    /\ UNCHANGED <<continue_looping, loop_iteration, bounds, config, screen,
                   title_out, raw_key, keys, hist>>

(* ------------------------------ tick labels ---------------------------- *)
Pow10(k) == 10 ^ k

Ceil(a, b) == -((-a) \div b)

\* the exponents k of the steps considered: -MaxTickDecimals..MaxTickExp
MaxTickDecimals == 2
MaxTickExp == 7

\* the steps {1, 2, 5} x 10^k as pairs (m, k)
NiceSteps == {1, 2, 5} \X ((-MaxTickDecimals)..MaxTickExp)

\* (m, k) is at least num / den
AtLeast(c, num, den) ==
    IF c[2] >= 0
    THEN c[1] * Pow10(c[2]) >= Ceil(num, den)
    ELSE num <= c[1] * den /\ c[1] * den >= num * Pow10(-c[2])

\* step c is not larger than step d
StepLeq(c, d) == c[2] < d[2] \/ (c[2] = d[2] /\ c[1] <= d[1])

\* raw_step = (range_max - range_min) / slot_count rounded up to a nice step
NiceStep(range_min, range_max, slot_count) ==
    CHOOSE c \in NiceSteps :
        /\ AtLeast(c, range_max - range_min, slot_count)
        /\ \A d \in NiceSteps :
              AtLeast(d, range_max - range_min, slot_count)
                  => StepLeq(c, d)

\* ticks at i * step for i in first..last: from the first multiple of step
\* that is >= range_min up to range_max
Ticks(range_min, range_max, slot_count) ==
    IF IsFinite(range_min) /\ IsFinite(range_max) /\ range_min < range_max
       /\ slot_count > 0
    THEN LET c == NiceStep(range_min, range_max, slot_count)
         IN  [m |-> c[1], k |-> c[2],
              first |-> IF c[2] >= 0
                        THEN Ceil(range_min, c[1] * Pow10(c[2]))
                        ELSE Ceil(range_min * Pow10(-c[2]), c[1]),
              last |-> IF c[2] >= 0
                       THEN range_max \div (c[1] * Pow10(c[2]))
                       ELSE (range_max * Pow10(-c[2])) \div c[1]]
    ELSE NoTicks

\* variant of yaxis_ticks: the y-axis gets one slot per grid column
yaxis_ticksByWidth == Ticks(y_min, y_max, width)

\* lines 39-41
yaxis_ticks == Ticks(y_min, y_max, height)

\* lines 42-44
xaxis_ticks == Ticks(x_min, x_max, width)

(* ------------------------------ rasterizer ----------------------------- *)
\* the points of the series
Points ==
    UNION { { <<series.xs[i][j], series.ys[i][j]>> :
                j \in 1..Len(series.ys[i]) } : i \in 1..Len(series.ys) }

\* sub_x = (x - x_min) / (x_max - x_min) * (width * 2), floored
sub_x(x) == ((x - x_min) * (width * 2)) \div (x_max - x_min)

\* sub_y = (y_max - y) / (y_max - y_min) * (height * 4), floored
sub_y(y) == ((y_max - y) * (height * 4)) \div (y_max - y_min)

\* the cell of a sub-pixel
Cell(sub) == <<sub[1] \div 2, sub[2] \div 4>>

\* lines 47-49: every point within Bounds (inclusive) sets one sub-pixel
assemble_scatter_plot ==
    IF /\ IsFinite(x_min) /\ IsFinite(x_max) /\ x_min < x_max
       /\ IsFinite(y_min) /\ IsFinite(y_max) /\ y_min < y_max
    THEN { [x |-> p[1], y |-> p[2], sub |-> <<sub_x(p[1]), sub_y(p[2])>>] :
             p \in { q \in Points : /\ x_min <= q[1] /\ q[1] <= x_max
                                    /\ y_min <= q[2] /\ q[2] <= y_max } }
    ELSE {}

(* ------------------------------ actions -------------------------------- *)
\* lines 26-32: the title is printed once, before the loop
PrintTitle ==
    /\ pc = "start"
    /\ title_out' = IF title THEN 1 ELSE 0
    /\ pc' = "loop"
    /\ UNCHANGED <<series, error, continue_looping, loop_iteration, bounds,
                   config, screen, raw_key, keys, hist>>

\* lines 60-61: one line per grid row
Rows(n) == [i \in 1..n |-> <<"row", i - 1>>]

\* the legend block: one line per label
legend(n) == [i \in 1..n |-> <<"legend", i - 1>>]

\* variant of nr_lines_to_erase: the legend lines are not counted
nr_lines_to_eraseNoLegend == height + 4

\* lines 53-55
nr_lines_to_erase ==
    IF legend_labels # NoLegend THEN height + 4 + legend_labels ELSE height + 4

\* line 56: the title lines left on the screen when the last n lines are
\* erased: the title sits right above the lines of the previous iteration
erase_previous_lines(n) == IF n > Len(out) THEN 0 ELSE title_out

\* variant of reads_key: the prompt and the key read happen in every mode
reads_keyAlways == TRUE

\* line 71: the prompt and the key read happen in interactive mode only
reads_key == interactive

\* variant of plot_lines: the legend block comes before the x-axis line
plot_linesLegendFirst ==
    << <<"top", width>> >> \o Rows(height)
    \o << <<"bottom", width>> >>
    \o (IF legend_labels # NoLegend THEN legend(legend_labels) ELSE <<>>)
    \o << <<"xaxis", width>> >>
    \o (IF reads_key THEN << <<"prompt", 0>> >> ELSE <<>>)

\* lines 59-72: the lines one loop iteration prints
plot_lines ==
    << <<"top", width>> >> \o Rows(height)
    \o << <<"bottom", width>>, <<"xaxis", width>> >>
    \o (IF legend_labels # NoLegend THEN legend(legend_labels) ELSE <<>>)
    \o (IF reads_key THEN << <<"prompt", 0>> >> ELSE <<>>)

\* x is within the current x-range
InXRange(x) == x_min <= x /\ x <= x_max

\* variant of RenderInput: only the x-values within the Bounds are passed
RenderInputClipped ==
    [bounds |-> Bounds, width |-> width, height |-> height,
     xs |-> [i \in 1..Len(series.xs) |-> SelectSeq(series.xs[i], InXRange)],
     ys |-> series.ys]

\* lines 39-49: what a render draws from
RenderInput ==
    [bounds |-> Bounds, width |-> width, height |-> height,
     xs |-> series.xs, ys |-> series.ys]

\* variant of Render: the loop flag is cleared in every mode
RenderStops ==
    /\ pc = "loop"
    /\ continue_looping
    /\ continue_looping' = FALSE
    /\ y_ticks' = yaxis_ticks
    /\ x_ticks' = xaxis_ticks
    /\ lit' = assemble_scatter_plot
    /\ rendered' = Append(rendered, RenderInput)
    /\ erased' = IF loop_iteration > 0 THEN nr_lines_to_erase ELSE -1
    /\ title_out' = IF loop_iteration > 0
                    THEN erase_previous_lines(nr_lines_to_erase)
                    ELSE title_out
    /\ out' = plot_lines
    /\ renders' = renders + 1
    /\ pc' = IF reads_key THEN "getch" ELSE "loop"
    /\ UNCHANGED <<series, error, loop_iteration, bounds, config,
                   raw_key, keys, hist>>

\* lines 33-72: one loop iteration up to the key read
Render ==
    /\ pc = "loop"
    /\ continue_looping
    /\ continue_looping' = interactive
    /\ y_ticks' = yaxis_ticks
    /\ x_ticks' = xaxis_ticks
    /\ lit' = assemble_scatter_plot
    /\ rendered' = Append(rendered, RenderInput)
    /\ erased' = IF loop_iteration > 0 THEN nr_lines_to_erase ELSE -1
    /\ title_out' = IF loop_iteration > 0
                    THEN erase_previous_lines(nr_lines_to_erase)
                    ELSE title_out
    /\ out' = plot_lines
    /\ renders' = renders + 1
    /\ pc' = IF reads_key THEN "getch" ELSE "loop"
    /\ UNCHANGED <<series, error, loop_iteration, bounds, config,
                   raw_key, keys, hist>>

\* line 33: the loop condition is false
Exit ==
    /\ pc = "loop"
    /\ ~continue_looping
    /\ pc' = "done"
    /\ UNCHANGED <<series, error, continue_looping, loop_iteration, bounds,
                   config, screen, title_out, raw_key, keys, hist>>

\* variant of step: 10% of the upper bound instead of the extent
stepOfMax(lo, hi) == FMulTenth(hi)

\* step = 0.1 * (max - min)
step(lo, hi) == FMulTenth(FSub(hi, lo))

\* variant of ReadKey: after the first key another key is read before the
\* plot is drawn again
ReadKeyAgain(c) ==
    /\ pc = "getch"
    /\ raw_key' = c
    /\ keys' = Append(keys, lower(c))
    /\ hist' = Append(hist, Bounds')
    /\ loop_iteration' = loop_iteration + 1
    /\ pc' = IF loop_iteration = 0 THEN "getch" ELSE "loop"
    /\ UNCHANGED <<series, error, config, screen, title_out>>

\* lines 73 and 118, common to every key; c is what getch() returned
ReadKey(c) ==
    /\ pc = "getch"
    /\ raw_key' = c
    /\ keys' = Append(keys, lower(c))
    /\ hist' = Append(hist, Bounds')
    /\ loop_iteration' = loop_iteration + 1
    /\ pc' = "loop"
    /\ UNCHANGED <<series, error, config, screen, title_out>>

\* variant of PanLeft: the step is recomputed after x_min has moved
PanLeftRecomputed ==
    \E c \in Keys :
        /\ lower(c) = "h"
        /\ Len(keys) < MaxKeys
        /\ x_min' = FSub(x_min, step(x_min, x_max))
        /\ x_max' = FSub(x_max, step(x_min', x_max))
        /\ UNCHANGED <<y_min, y_max, continue_looping>>
        /\ ReadKey(c)

\* lines 76-80
PanLeft ==
    \E c \in Keys :
        /\ lower(c) = "h"
        /\ Len(keys) < MaxKeys
        /\ x_min' = FSub(x_min, step(x_min, x_max))
        /\ x_max' = FSub(x_max, step(x_min, x_max))
        /\ UNCHANGED <<y_min, y_max, continue_looping>>
        /\ ReadKey(c)

\* variant of PanRight: the step is 10% of the extent the session began with
PanRightInitialStep ==
    \E c \in Keys :
        /\ lower(c) = "l"
        /\ Len(keys) < MaxKeys
        /\ x_min' = FAdd(x_min, step(reset_target.x_min, reset_target.x_max))
        /\ x_max' = FAdd(x_max, step(reset_target.x_min, reset_target.x_max))
        /\ UNCHANGED <<y_min, y_max, continue_looping>>
        /\ ReadKey(c)

\* lines 81-85
PanRight ==
    \E c \in Keys :
        /\ lower(c) = "l"
        /\ Len(keys) < MaxKeys
        /\ x_min' = FAdd(x_min, step(x_min, x_max))
        /\ x_max' = FAdd(x_max, step(x_min, x_max))
        /\ UNCHANGED <<y_min, y_max, continue_looping>>
        /\ ReadKey(c)

\* variant of PanUp: up moves toward higher y values
PanUpAdds ==
    \E c \in Keys :
        /\ lower(c) = "j"
        /\ Len(keys) < MaxKeys
        /\ y_min' = FAdd(y_min, step(y_min, y_max))
        /\ y_max' = FAdd(y_max, step(y_min, y_max))
        /\ UNCHANGED <<x_min, x_max, continue_looping>>
        /\ ReadKey(c)

\* lines 86-90
PanUp ==
    \E c \in Keys :
        /\ lower(c) = "j"
        /\ Len(keys) < MaxKeys
        /\ y_min' = FSub(y_min, step(y_min, y_max))
        /\ y_max' = FSub(y_max, step(y_min, y_max))
        /\ UNCHANGED <<x_min, x_max, continue_looping>>
        /\ ReadKey(c)

\* lines 91-95
PanDown ==
    \E c \in Keys :
        /\ lower(c) = "k"
        /\ Len(keys) < MaxKeys
        /\ y_min' = FAdd(y_min, step(y_min, y_max))
        /\ y_max' = FAdd(y_max, step(y_min, y_max))
        /\ UNCHANGED <<x_min, x_max, continue_looping>>
        /\ ReadKey(c)

\* variant of ZoomIn: the y axis reuses the step of the x axis
ZoomInSharedStep ==
    \E c \in Keys :
        /\ lower(c) = "u"
        /\ Len(keys) < MaxKeys
        /\ x_min' = FAdd(x_min, step(x_min, x_max))
        /\ x_max' = FSub(x_max, step(x_min, x_max))
        /\ y_min' = FAdd(y_min, step(x_min, x_max))
        /\ y_max' = FSub(y_max, step(x_min, x_max))
        /\ UNCHANGED continue_looping
        /\ ReadKey(c)

\* lines 96-103
ZoomIn ==
    \E c \in Keys :
        /\ lower(c) = "u"
        /\ Len(keys) < MaxKeys
        /\ x_min' = FAdd(x_min, step(x_min, x_max))
        /\ x_max' = FSub(x_max, step(x_min, x_max))
        /\ y_min' = FAdd(y_min, step(y_min, y_max))
        /\ y_max' = FSub(y_max, step(y_min, y_max))
        /\ UNCHANGED continue_looping
        /\ ReadKey(c)

\* variant of ZoomOut: the y axis keeps the signs of zoom-in
ZoomOutShrinksY ==
    \E c \in Keys :
        /\ lower(c) = "n"
        /\ Len(keys) < MaxKeys
        /\ x_min' = FSub(x_min, step(x_min, x_max))
        /\ x_max' = FAdd(x_max, step(x_min, x_max))
        /\ y_min' = FAdd(y_min, step(y_min, y_max))
        /\ y_max' = FSub(y_max, step(y_min, y_max))
        /\ UNCHANGED continue_looping
        /\ ReadKey(c)

\* lines 104-111
ZoomOut ==
    \E c \in Keys :
        /\ lower(c) = "n"
        /\ Len(keys) < MaxKeys
        /\ x_min' = FSub(x_min, step(x_min, x_max))
        /\ x_max' = FAdd(x_max, step(x_min, x_max))
        /\ y_min' = FSub(y_min, step(y_min, y_max))
        /\ y_max' = FAdd(y_max, step(y_min, y_max))
        /\ UNCHANGED continue_looping
        /\ ReadKey(c)

\* Options.reset_view(): Bounds := the Bounds captured at session start
reset_view ==
    /\ x_min' = reset_target.x_min
    /\ x_max' = reset_target.x_max
    /\ y_min' = reset_target.y_min
    /\ y_max' = reset_target.y_max

\* variant of Reset: the key is read but the view is not reset
ResetIgnored ==
    \E c \in Keys :
        /\ lower(c) = "r"
        /\ Len(keys) < MaxKeys
        /\ UNCHANGED <<bounds, continue_looping>>
        /\ ReadKey(c)

\* lines 112-113
Reset ==
    \E c \in Keys :
        /\ lower(c) = "r"
        /\ Len(keys) < MaxKeys
        /\ reset_view
        /\ UNCHANGED continue_looping
        /\ ReadKey(c)

\* variant of Quit: the loop flag is left as it was
QuitKeepsLooping ==
    \E c \in Keys :
        /\ lower(c) \in {"q", "ESC"}
        /\ UNCHANGED <<bounds, continue_looping>>
        /\ ReadKey(c)

\* lines 114-116
Quit ==
    \E c \in Keys :
        /\ lower(c) \in {"q", "ESC"}
        /\ continue_looping' = FALSE
        /\ UNCHANGED bounds
        /\ ReadKey(c)

\* no branch of lines 76-116 matches
OtherKey ==
    \E c \in Keys :
        /\ lower(c) \notin {"h", "l", "j", "k", "u", "n", "r", "q", "ESC"}
        /\ Len(keys) < MaxKeys
        /\ UNCHANGED <<bounds, continue_looping>>
        /\ ReadKey(c)

Next ==
    \/ Validate
    \/ PrintTitle
    \/ Render
    \/ Exit
    \/ PanLeft
    \/ PanRight
    \/ PanUp
    \/ PanDown
    \/ ZoomIn
    \/ ZoomOut
    \/ Reset
    \/ Quit
    \/ OtherKey

Spec == Init /\ [][Next]_vars

\* the interpreter runs the next statement: every step but the key read,
\* which waits on the keyboard, is eventually taken
FairSpec ==
    /\ Spec
    /\ WF_vars(Validate) /\ WF_vars(PrintTitle)
    /\ WF_vars(Render) /\ WF_vars(Exit)

TypeOK ==
    /\ pc \in {"validate", "raised", "start", "loop", "getch", "done"}
    /\ error \in {"none", "ShapeMismatch", "InvalidDimension",
                 "LabelCountMismatch"}
    /\ Len(rendered) = renders
    /\ continue_looping \in BOOLEAN
    /\ loop_iteration \in 0..(MaxKeys + 1)
    /\ Len(keys) = loop_iteration
    /\ Len(hist) = loop_iteration + 1
    /\ \A v \in {x_min, x_max, y_min, y_max} :
          v \in {PosInf, NegInf, NaN} \/ Representable(v)
(* ------------------------- properties: helpers ------------------------- *)
NKeys == Len(keys)
Steps == 1..NKeys
Pre(i) == hist[i]           \* Bounds when key i was read
Post(i) == hist[i + 1]      \* Bounds after key i was handled

\* spacing of the floating-point numbers at magnitude v
Ulp(v) == Pow2(ExpOf(Abs(v), 1, 0))

Max2(a, b) == IF a < b THEN b ELSE a
XMag(b) == Max2(Abs(b.x_min), Abs(b.x_max))
YMag(b) == Max2(Abs(b.y_min), Abs(b.y_max))
XUlp(b, c) == Ulp(Max2(XMag(b), XMag(c)))
YUlp(b, c) == Ulp(Max2(YMag(b), YMag(c)))

XFinite(b) == IsFinite(b.x_min) /\ IsFinite(b.x_max)
YFinite(b) == IsFinite(b.y_min) /\ IsFinite(b.y_max)
AllFinite(b) == XFinite(b) /\ YFinite(b)

XExtent(b) == b.x_max - b.x_min
YExtent(b) == b.y_max - b.y_min

\* the delta of a key, evaluated in floating point from the Bounds b
XDelta(b) == FMulTenth(FSub(b.x_max, b.x_min))
YDelta(b) == FMulTenth(FSub(b.y_max, b.y_min))

SameX(b, c) == b.x_min = c.x_min /\ b.x_max = c.x_max
SameY(b, c) == b.y_min = c.y_min /\ b.y_max = c.y_max

\* |v - (from + tenths * extent / 10)| <= k * u, in integers
NearTenths(v, from, tenths, extent, k, u) ==
    Abs(10 * (v - from) - tenths * extent) <= 10 * k * u

(* ------------------------------ C1 ------------------------------------- *)
\* C1 as stated: key h shifts x_min and x_max by exactly -0.1 * extent and
\* key l by exactly +0.1 * extent, the x extent is exactly unchanged and
\* y_min, y_max are unchanged.
C1_Original ==
    \A i \in Steps :
        (keys[i] \in {"h", "l"} /\ XFinite(Pre(i)) /\ XFinite(Post(i))) =>
            LET sign == IF keys[i] = "h" THEN -1 ELSE 1 IN
            /\ 10 * (Post(i).x_min - Pre(i).x_min) = sign * XExtent(Pre(i))
            /\ 10 * (Post(i).x_max - Pre(i).x_max) = sign * XExtent(Pre(i))
            /\ XExtent(Post(i)) = XExtent(Pre(i))
            /\ SameY(Pre(i), Post(i))

\* C1 (amended): key h replaces (x_min, x_max) by the floating-point values
\* of (x_min - d, x_max - d) and key l by those of (x_min + d, x_max + d),
\* d being 0.1 * (x_max - x_min) evaluated in floating point from the Bounds
\* before the key; y_min and y_max are unchanged; when the result is finite
\* each new bound is within 2 ulp of the exact shifted value and the x
\* extent is unchanged to within 4 ulp (ulp of the largest bound magnitude).
C1_PanHorizontal ==
    \A i \in Steps :
        keys[i] \in {"h", "l"} =>
            LET d == XDelta(Pre(i))
                sign == IF keys[i] = "h" THEN -1 ELSE 1
                u == XUlp(Pre(i), Post(i))
            IN
            /\ SameY(Pre(i), Post(i))
            /\ Post(i).x_min = IF sign < 0 THEN FSub(Pre(i).x_min, d)
                                            ELSE FAdd(Pre(i).x_min, d)
            /\ Post(i).x_max = IF sign < 0 THEN FSub(Pre(i).x_max, d)
                                            ELSE FAdd(Pre(i).x_max, d)
            /\ (XFinite(Pre(i)) /\ XFinite(Post(i))) =>
                  /\ NearTenths(Post(i).x_min, Pre(i).x_min, sign, XExtent(Pre(i)), 2, u)
                  /\ NearTenths(Post(i).x_max, Pre(i).x_max, sign, XExtent(Pre(i)), 2, u)
                  /\ Abs(XExtent(Post(i)) - XExtent(Pre(i))) <= 4 * u

\* a pan-left and a pan-right have both been handled, one of them inexactly
C1_Witness ==
    /\ NKeys >= 2
    /\ keys[1] = "l" /\ keys[2] = "h"
    /\ XFinite(hist[3])
    /\ XExtent(hist[2]) # XExtent(hist[1])
    /\ hist[2].x_min > hist[1].x_min

(* ------------------------------ C2 ------------------------------------- *)
\* C2 as stated: key j shifts y_min and y_max by exactly -0.1 * extent and
\* key k by exactly +0.1 * extent, the y extent is exactly unchanged and
\* x_min, x_max are unchanged.
C2_Original ==
    \A i \in Steps :
        (keys[i] \in {"j", "k"} /\ YFinite(Pre(i)) /\ YFinite(Post(i))) =>
            LET sign == IF keys[i] = "j" THEN -1 ELSE 1 IN
            /\ 10 * (Post(i).y_min - Pre(i).y_min) = sign * YExtent(Pre(i))
            /\ 10 * (Post(i).y_max - Pre(i).y_max) = sign * YExtent(Pre(i))
            /\ YExtent(Post(i)) = YExtent(Pre(i))
            /\ SameX(Pre(i), Post(i))

\* C2 (amended): pan-up (j) replaces (y_min, y_max) by the floating-point
\* values of (y_min - d, y_max - d) and pan-down (k) by those of
\* (y_min + d, y_max + d), d being 0.1 * (y_max - y_min) evaluated in
\* floating point from the Bounds before the key; x_min and x_max are
\* unchanged; when the result is finite, up never raises and down never
\* lowers a bound, each new bound is within 2 ulp of the exact shifted value
\* and the y extent is unchanged to within 4 ulp.
C2_PanVertical ==
    \A i \in Steps :
        keys[i] \in {"j", "k"} =>
            LET d == YDelta(Pre(i))
                sign == IF keys[i] = "j" THEN -1 ELSE 1
                u == YUlp(Pre(i), Post(i))
            IN
            /\ SameX(Pre(i), Post(i))
            /\ Post(i).y_min = IF sign < 0 THEN FSub(Pre(i).y_min, d)
                                            ELSE FAdd(Pre(i).y_min, d)
            /\ Post(i).y_max = IF sign < 0 THEN FSub(Pre(i).y_max, d)
                                            ELSE FAdd(Pre(i).y_max, d)
            /\ (YFinite(Pre(i)) /\ YFinite(Post(i))) =>
                  /\ sign * (Post(i).y_min - Pre(i).y_min) >= 0
                  /\ sign * (Post(i).y_max - Pre(i).y_max) >= 0
                  /\ NearTenths(Post(i).y_min, Pre(i).y_min, sign, YExtent(Pre(i)), 2, u)
                  /\ NearTenths(Post(i).y_max, Pre(i).y_max, sign, YExtent(Pre(i)), 2, u)
                  /\ Abs(YExtent(Post(i)) - YExtent(Pre(i))) <= 4 * u

\* a pan-up towards lower y values and a pan-down have both been handled,
\* one of them inexactly
C2_Witness ==
    /\ NKeys >= 2
    /\ keys[1] = "k" /\ keys[2] = "j"
    /\ YFinite(hist[3])
    /\ YExtent(hist[2]) # YExtent(hist[1])
    /\ hist[3].y_max < hist[2].y_max

(* ------------------------------ C3 ------------------------------------- *)
\* C3 as stated: zoom-in (u) moves each min up and each max down by exactly
\* 10% of that axis's extent, so both extents become exactly 0.8 of their
\* previous value; zoom-out (n) makes them exactly 1.2 of it.
C3_Original ==
    \A i \in Steps :
        (keys[i] \in {"u", "n"} /\ AllFinite(Pre(i)) /\ AllFinite(Post(i))) =>
            LET sign == IF keys[i] = "u" THEN 1 ELSE -1 IN
            /\ 10 * (Post(i).x_min - Pre(i).x_min) = sign * XExtent(Pre(i))
            /\ 10 * (Pre(i).x_max - Post(i).x_max) = sign * XExtent(Pre(i))
            /\ 10 * (Post(i).y_min - Pre(i).y_min) = sign * YExtent(Pre(i))
            /\ 10 * (Pre(i).y_max - Post(i).y_max) = sign * YExtent(Pre(i))
            /\ 10 * XExtent(Post(i)) = (10 - 2 * sign) * XExtent(Pre(i))
            /\ 10 * YExtent(Post(i)) = (10 - 2 * sign) * YExtent(Pre(i))

\* C3 (amended): zoom-in (u) replaces each min by the floating-point value
\* of min + d and each max by that of max - d, zoom-out (n) with the inverse
\* signs, d being 0.1 * (max - min) of that axis evaluated in floating point
\* from the Bounds before the key; both axes change in the same transition;
\* when the result is finite each new bound is within 2 ulp of the exact
\* value and the extents are within 4 ulp of 0.8 (zoom-in) or 1.2 (zoom-out)
\* of their previous value.
C3_Zoom ==
    \A i \in Steps :
        keys[i] \in {"u", "n"} =>
            LET dx == XDelta(Pre(i))
                dy == YDelta(Pre(i))
                sign == IF keys[i] = "u" THEN 1 ELSE -1
                ux == XUlp(Pre(i), Post(i))
                uy == YUlp(Pre(i), Post(i))
            IN
            /\ Post(i).x_min = IF sign > 0 THEN FAdd(Pre(i).x_min, dx)
                                            ELSE FSub(Pre(i).x_min, dx)
            /\ Post(i).x_max = IF sign > 0 THEN FSub(Pre(i).x_max, dx)
                                            ELSE FAdd(Pre(i).x_max, dx)
            /\ Post(i).y_min = IF sign > 0 THEN FAdd(Pre(i).y_min, dy)
                                            ELSE FSub(Pre(i).y_min, dy)
            /\ Post(i).y_max = IF sign > 0 THEN FSub(Pre(i).y_max, dy)
                                            ELSE FAdd(Pre(i).y_max, dy)
            /\ (XFinite(Pre(i)) /\ XFinite(Post(i))) =>
                  /\ NearTenths(Post(i).x_min, Pre(i).x_min, sign, XExtent(Pre(i)), 2, ux)
                  /\ NearTenths(Post(i).x_max, Pre(i).x_max, -sign, XExtent(Pre(i)), 2, ux)
                  /\ Abs(10 * XExtent(Post(i)) - (10 - 2 * sign) * XExtent(Pre(i))) <= 40 * ux
            /\ (YFinite(Pre(i)) /\ YFinite(Post(i))) =>
                  /\ NearTenths(Post(i).y_min, Pre(i).y_min, sign, YExtent(Pre(i)), 2, uy)
                  /\ NearTenths(Post(i).y_max, Pre(i).y_max, -sign, YExtent(Pre(i)), 2, uy)
                  /\ Abs(10 * YExtent(Post(i)) - (10 - 2 * sign) * YExtent(Pre(i))) <= 40 * uy

\* a zoom-in and a zoom-out have been handled, changing both axes, with an
\* extent that is not exactly 0.8 of the previous one
C3_Witness ==
    /\ NKeys >= 2
    /\ keys[1] = "u" /\ keys[2] = "n"
    /\ AllFinite(hist[3])
    /\ ~SameX(hist[1], hist[2]) /\ ~SameY(hist[1], hist[2])
    /\ 10 * YExtent(hist[2]) # 8 * YExtent(hist[1])
    /\ XExtent(hist[3]) > XExtent(hist[2])
(* ------------------------------ C4 ------------------------------------- *)
\* C4: after any sequence of keys, key r sets Bounds to exactly the Bounds
\* of session start, and running (continue_looping) stays true.
C4_Reset ==
    \A i \in Steps :
        keys[i] = "r" =>
            /\ Post(i) = hist[1]
            /\ i = NKeys => (Bounds = hist[1] /\ continue_looping)

\* a reset was handled after keys that had moved the Bounds
C4_Witness ==
    /\ NKeys = 3
    /\ keys[3] = "r"
    /\ hist[2] # hist[1] /\ hist[3] # hist[2] /\ hist[3] # hist[1]
    /\ Bounds = hist[1]

(* ------------------------------ C5 ------------------------------------- *)
QuitKeys == {"q", "ESC"}

\* C5: key q or escape sets running to false and leaves the four Bounds
\* values unchanged; it is the last key read, and no render follows it.
C5_Quit ==
    \A i \in Steps :
        keys[i] \in QuitKeys =>
            /\ i = NKeys
            /\ ~continue_looping
            /\ Post(i) = Pre(i) /\ Bounds = Pre(i)
            /\ renders = NKeys
            /\ pc \in {"loop", "done"}

\* the session ended on escape after keys that had moved the Bounds
C5_Witness ==
    /\ pc = "done"
    /\ NKeys >= 2
    /\ keys[NKeys] = "ESC"
    /\ hist[NKeys] # hist[1]

(* ------------------------------ C6 ------------------------------------- *)
Recognized == {"h", "j", "k", "l", "u", "n", "r", "q", "ESC"}

LowerForm ==
    [c \in UpperKeys |->
        CASE c = "H" -> "h" [] c = "J" -> "j" [] c = "K" -> "k" [] c = "L" -> "l"
          [] c = "U" -> "u" [] c = "N" -> "n" [] c = "R" -> "r" [] c = "Q" -> "q"]

\* the Bounds that the transition table gives for key k from Bounds b
Effect(k, b) ==
    CASE k = "h" -> [b EXCEPT !.x_min = FSub(b.x_min, XDelta(b)),
                              !.x_max = FSub(b.x_max, XDelta(b))]
      [] k = "l" -> [b EXCEPT !.x_min = FAdd(b.x_min, XDelta(b)),
                              !.x_max = FAdd(b.x_max, XDelta(b))]
      [] k = "j" -> [b EXCEPT !.y_min = FSub(b.y_min, YDelta(b)),
                              !.y_max = FSub(b.y_max, YDelta(b))]
      [] k = "k" -> [b EXCEPT !.y_min = FAdd(b.y_min, YDelta(b)),
                              !.y_max = FAdd(b.y_max, YDelta(b))]
      [] k = "u" -> [x_min |-> FAdd(b.x_min, XDelta(b)),
                     x_max |-> FSub(b.x_max, XDelta(b)),
                     y_min |-> FAdd(b.y_min, YDelta(b)),
                     y_max |-> FSub(b.y_max, YDelta(b))]
      [] k = "n" -> [x_min |-> FSub(b.x_min, XDelta(b)),
                     x_max |-> FAdd(b.x_max, XDelta(b)),
                     y_min |-> FSub(b.y_min, YDelta(b)),
                     y_max |-> FAdd(b.y_max, YDelta(b))]
      [] k = "r" -> hist[1]
      [] OTHER -> b

\* C6: a key that after lowercasing is not one of h, j, k, l, u, n, r, q,
\* escape leaves Bounds unchanged and running true, so the loop renders
\* again with the same Bounds; an uppercase H, J, K, L, U, N, R, Q has the
\* effect of its lowercase form.
C6_OtherKey ==
    /\ \A i \in Steps : keys[i] \notin Recognized => Post(i) = Pre(i)
    /\ NKeys > 0 =>
        /\ keys[NKeys] \notin Recognized =>
              /\ Bounds = Pre(NKeys)
              /\ continue_looping
              /\ pc \in {"loop", "getch"}
              /\ pc = "getch" => renders = NKeys + 1
        /\ raw_key \in UpperKeys =>
              /\ keys[NKeys] = LowerForm[raw_key]
              /\ Bounds = Effect(LowerForm[raw_key], Pre(NKeys))
              /\ continue_looping <=> LowerForm[raw_key] # "q"

\* an unrecognized key was followed by a re-render and an uppercase zoom key
C6_Witness ==
    /\ NKeys = 2
    /\ keys[1] = "x"
    /\ raw_key = "U"
    /\ Bounds # Pre(NKeys)
    /\ renders = 2

(* ------------------------------ C7 ------------------------------------- *)
\* C7: the Bounds satisfy x_min < x_max and y_min < y_max initially and
\* after every sequence of key transitions.
C7_Ordering == FLess(x_min, x_max) /\ FLess(y_min, y_max)

(* ------------------------------ C8 ------------------------------------- *)
Pairs == 1..(NKeys - 1)
XRoundTrip(i) == <<keys[i], keys[i + 1]>> \in {<<"l", "h">>, <<"h", "l">>}
YRoundTrip(i) == <<keys[i], keys[i + 1]>> \in {<<"k", "j">>, <<"j", "k">>}

\* C8 as stated: a pan followed by the opposite pan returns Bounds exactly
\* to the original.
C8_Original ==
    \A i \in Pairs :
        ((XRoundTrip(i) \/ YRoundTrip(i)) /\ AllFinite(hist[i + 2])) =>
            hist[i + 2] = hist[i]

\* C8 (amended): a pan followed by the opposite pan, each computed against
\* the Bounds current at that key, returns each bound of the panned axis to
\* within floating-point tolerance (5 ulp of the largest bound magnitude
\* involved) of the original, and exactly for the x-range (0, 10); the other
\* axis is unchanged; a bound that overflowed in the first pan is not
\* restored.
C8_PanRoundTrip ==
    \A i \in Pairs :
        /\ XRoundTrip(i) =>
              LET u == Ulp(Max2(Max2(XMag(hist[i]), XMag(hist[i + 1])), XMag(hist[i + 2]))) IN
              /\ SameY(hist[i], hist[i + 2])
              /\ IF XFinite(hist[i + 1])
                 THEN /\ XFinite(hist[i + 2])
                      /\ Abs(hist[i + 2].x_min - hist[i].x_min) <= 5 * u
                      /\ Abs(hist[i + 2].x_max - hist[i].x_max) <= 5 * u
                 ELSE ~XFinite(hist[i + 2])
              /\ (hist[i].x_min = 0 /\ hist[i].x_max = 10) => SameX(hist[i], hist[i + 2])
        /\ YRoundTrip(i) =>
              LET u == Ulp(Max2(Max2(YMag(hist[i]), YMag(hist[i + 1])), YMag(hist[i + 2]))) IN
              /\ SameX(hist[i], hist[i + 2])
              /\ IF YFinite(hist[i + 1])
                 THEN /\ YFinite(hist[i + 2])
                      /\ Abs(hist[i + 2].y_min - hist[i].y_min) <= 5 * u
                      /\ Abs(hist[i + 2].y_max - hist[i].y_max) <= 5 * u
                 ELSE ~YFinite(hist[i + 2])

\* pan-right then pan-left came back next to, but not onto, the original
C8_Witness ==
    /\ NKeys = 2
    /\ keys = <<"l", "h">>
    /\ XFinite(hist[3])
    /\ hist[2].x_min # hist[1].x_min
    /\ hist[3] # hist[1]

(* ------------------------------ C9 ------------------------------------- *)
ZoomInOut(i) == keys[i] = "u" /\ keys[i + 1] = "n"

\* C9 as stated: zoom-in followed by zoom-out yields on both axes a range
\* strictly narrower than the original and contained in it, with extent
\* 0.96 of the original, never the original Bounds.
C9_Original ==
    \A i \in Pairs :
        (ZoomInOut(i) /\ AllFinite(hist[i]) /\ AllFinite(hist[i + 2])) =>
            /\ hist[i + 2].x_min >= hist[i].x_min /\ hist[i + 2].x_max <= hist[i].x_max
            /\ hist[i + 2].y_min >= hist[i].y_min /\ hist[i + 2].y_max <= hist[i].y_max
            /\ XExtent(hist[i + 2]) < XExtent(hist[i])
            /\ YExtent(hist[i + 2]) < YExtent(hist[i])
            /\ 25 * XExtent(hist[i + 2]) = 24 * XExtent(hist[i])
            /\ 25 * YExtent(hist[i + 2]) = 24 * YExtent(hist[i])

\* |v - (from + fiftieths * extent / 50)| <= k * u, in integers
NearFiftieths(v, from, fiftieths, extent, k, u) ==
    Abs(50 * (v - from) - fiftieths * extent) <= 50 * k * u

\* the zoom-in then zoom-out relation on one axis: (lo, hi) before, (lo1, hi1)
\* after the zoom-in, (lo2, hi2) after the zoom-out
ZoomInOutAxis(lo, hi, lo1, hi1, lo2, hi2) ==
    LET u == Ulp(Max2(Max2(Max2(Abs(lo), Abs(hi)), Max2(Abs(lo1), Abs(hi1))),
                      Max2(Abs(lo2), Abs(hi2))))
        e == hi - lo
    IN  IF IsFinite(lo1) /\ IsFinite(hi1) /\ IsFinite(lo2) /\ IsFinite(hi2)
        THEN /\ NearFiftieths(lo2, lo, 1, e, 5, u)
             /\ NearFiftieths(hi2, hi, -1, e, 5, u)
             /\ Abs(25 * (hi2 - lo2) - 24 * e) <= 25 * 10 * u
             /\ e > 250 * u => (lo2 > lo /\ hi2 < hi)
        ELSE ~(IsFinite(lo2) /\ IsFinite(hi2))

\* C9 (amended): zoom-in followed by zoom-out is not the identity on ranges
\* that are wide against the rounding: from finite ordered Bounds it yields
\* on each axis bounds within 5 ulp of (min + 0.02 e, max - 0.02 e), hence
\* an extent within 10 ulp of 0.96 e, and a range strictly inside the
\* original whenever e exceeds 250 ulp (ulp of the largest bound magnitude
\* involved); on narrower ranges the result may equal or exceed the
\* original; an axis that overflowed in the zoom-in is not restored.
C9_ZoomInOut ==
    \A i \in Pairs :
        (ZoomInOut(i) /\ AllFinite(hist[i])
           /\ hist[i].x_min < hist[i].x_max /\ hist[i].y_min < hist[i].y_max) =>
            /\ ZoomInOutAxis(hist[i].x_min, hist[i].x_max,
                             hist[i + 1].x_min, hist[i + 1].x_max,
                             hist[i + 2].x_min, hist[i + 2].x_max)
            /\ ZoomInOutAxis(hist[i].y_min, hist[i].y_max,
                             hist[i + 1].y_min, hist[i + 1].y_max,
                             hist[i + 2].y_min, hist[i + 2].y_max)

\* zoom-in then zoom-out ended strictly inside a wide x-range while the
\* narrow y-range came out wider than it was
C9_Witness ==
    /\ NKeys = 2
    /\ keys = <<"u", "n">>
    /\ AllFinite(hist[3])
    /\ XExtent(hist[1]) > 250 * XUlp(hist[1], hist[2])
    /\ hist[3].x_min > hist[1].x_min /\ hist[3].x_max < hist[1].x_max
    /\ YExtent(hist[3]) > YExtent(hist[1])

(* ------------------------------ C10 ------------------------------------ *)
QuitRead == NKeys > 0 /\ keys[NKeys] \in QuitKeys

\* C10: in interactive mode the loop ends only after a quit key (q or
\* escape) was read, no key is read after the first quit key, and once a
\* quit key has been read the loop eventually terminates.
C10_Termination ==
    /\ []((interactive /\ pc = "done") => QuitRead)
    /\ [](\A i \in Steps : keys[i] \in QuitKeys => i = NKeys)
    /\ [](interactive => (pc = "getch" => continue_looping))
    /\ (QuitRead ~> pc = "done")

\* an interactive session that read non-quit keys has terminated on q
C10_Witness ==
    /\ interactive
    /\ pc = "done"
    /\ NKeys = MaxKeys + 1
    /\ keys[NKeys] = "q"
    /\ renders = NKeys

(* ------------------------------ C11 ------------------------------------ *)
\* C11: in non-interactive mode the plot is rendered exactly once and the
\* session then terminates; no key is ever read, no line is ever erased
\* and the Bounds never leave their initial values.
C11_NonInteractive ==
    /\ [](~interactive =>
            /\ NKeys = 0 /\ raw_key = "" /\ pc # "getch"
            /\ erased = -1
            /\ Bounds = hist[1] /\ Len(hist) = 1
            /\ renders <= 1
            /\ (pc = "done" => renders = 1))
    /\ ((~interactive /\ pc = "start") ~> (pc = "done"))

\* a non-interactive session has terminated after its single render
C11_Witness ==
    /\ ~interactive
    /\ pc = "done"
    /\ renders = 1
    /\ Len(out) = height + 3 + (IF legend_labels = NoLegend THEN 0
                                ELSE legend_labels)
    /\ NKeys = 0

(* ------------------------------ C12 ------------------------------------ *)
\* the arguments fail validation
BadShape ==
    /\ xs # NoXs
    /\ \/ Len(xs) # Len(ys)
       \/ \E i \in 1..Len(ys) : Len(xs[i]) # Len(ys[i])
BadDimension == width <= 0 \/ height <= 0
BadLabels == legend_labels # NoLegend /\ legend_labels # Len(ys)

NothingPrinted ==
    /\ title_out = 0 /\ out = <<>> /\ renders = 0 /\ rendered = <<>>
    /\ NKeys = 0 /\ raw_key = "" /\ erased = -1

\* C12: when the arguments fail validation (ShapeMismatch,
\* InvalidDimension or LabelCountMismatch, e.g. 2 legend labels for 1
\* series) the failure is raised before anything is printed: no title
\* line, no border, no content row, and no key is read.
C12_ValidationFirst ==
    /\ (BadShape \/ BadDimension \/ BadLabels) =>
          /\ pc \in {"validate", "raised"}
          /\ NothingPrinted
    /\ pc = "raised" =>
          /\ error = "ShapeMismatch" => BadShape
          /\ error = "InvalidDimension" => BadDimension
          /\ error = "LabelCountMismatch" => BadLabels
          /\ error # "none"
    /\ (legend_labels = 2 /\ Len(ys) = 1 /\ ~BadDimension /\ ~BadShape
        /\ pc # "validate") =>
          pc = "raised" /\ error = "LabelCountMismatch"

\* two legend labels for one series, with a title: the failure was raised
C12_Witness ==
    /\ pc = "raised"
    /\ error = "LabelCountMismatch"
    /\ legend_labels = 2 /\ Len(ys) = 1
    /\ title
    /\ NothingPrinted

(* ------------------------------ C13 ------------------------------------ *)
LegendLines == IF legend_labels = NoLegend THEN 0 ELSE legend_labels

\* the lines of the latest render: top border, height framed rows, bottom
\* border, x-axis line, then the legend block when labels are set
PlotEmitted ==
    /\ Len(out) >= height + 3 + LegendLines
    /\ out[1] = <<"top", width>>
    /\ \A i \in 1..height : out[1 + i] = <<"row", i - 1>>
    /\ out[height + 2] = <<"bottom", width>>
    /\ out[height + 3] = <<"xaxis", width>>
    /\ \A i \in 1..LegendLines : out[height + 3 + i] = <<"legend", i - 1>>
    /\ \A i \in 1..Len(out) : out[i][1] = "legend" => legend_labels # NoLegend

\* C13 as stated: every render, re-renders included, emits the title line
\* when a title is set, followed by the plot lines.
C13_Original ==
    renders >= 1 =>
        /\ title => title_out = renders
        /\ PlotEmitted

\* C13: the title line, when a title is set, is emitted once, before the
\* first render; every render (every loop iteration, re-renders included)
\* emits in order the top border of width columns, exactly height content
\* lines, the bottom border, the x-axis label line, the legend block when
\* legend labels are set, and in interactive mode the key prompt line.
C13_OutputPerRender ==
    /\ pc \in {"validate", "raised", "start"} => title_out = 0 /\ out = <<>>
    /\ pc \in {"loop", "getch", "done"} =>
          title_out = (IF title THEN 1 ELSE 0)
    /\ renders = 0 => out = <<>>
    /\ renders >= 1 =>
          /\ PlotEmitted
          /\ Len(out) = height + 3 + LegendLines + (IF interactive THEN 1 ELSE 0)
          /\ interactive => out[Len(out)] = <<"prompt", 0>>
          /\ \A i \in 1..Len(out) : out[i][1] = "prompt" => i = Len(out)

\* a titled plot with two legend labels has been rendered a second time
C13_Witness ==
    /\ renders = 2
    /\ title /\ title_out = 1
    /\ legend_labels = 2
    /\ pc = "getch"
    /\ Len(out) = height + 6

(* ------------------------------ C14 ------------------------------------ *)
\* C14: the grid size and the data are fixed for the session: width and
\* height keep their initial values and the series (xs, ys) passed to each
\* render are the same as for the first; only the four Bounds values and
\* the running flag ever change.
C14_GridAndDataFixed ==
    /\ [][/\ width' = width /\ height' = height
          /\ xs' = xs /\ ys' = ys
          /\ interactive' = interactive /\ title' = title
          /\ legend_labels' = legend_labels
          /\ reset_target' = reset_target
          /\ pc # "validate" => series' = series]_vars
    /\ [](\A i \in 1..Len(rendered) :
            /\ rendered[i].width = width /\ rendered[i].height = height
            /\ rendered[i].xs = rendered[1].xs
            /\ rendered[i].ys = rendered[1].ys
            /\ rendered[i].ys = ys
            /\ xs # NoXs => rendered[i].xs = xs)

\* a third render, after the Bounds have moved, drew the same series on
\* the same grid as the first
C14_Witness ==
    /\ renders = 3
    /\ Bounds # hist[1]
    /\ rendered[3].bounds # rendered[1].bounds
    /\ rendered[3].xs = rendered[1].xs /\ rendered[3].ys = rendered[1].ys
    /\ rendered[3].width = rendered[1].width
    /\ rendered[3].height = rendered[1].height

(* ------------------------------ C15 ------------------------------------ *)
\* the Bounds the latest render drew with
Drawn == rendered[renders].bounds

\* C15: a point at (x_min, y_max) maps to sub-pixel (0, 0) in cell (0, 0),
\* and a point at (x_max, y_min) maps to the last sub-pixel, inside the
\* bottom-right cell (width - 1, height - 1).
C15_CornerMapping ==
    renders >= 1 =>
        \A p \in lit :
            /\ (p.x = Drawn.x_min /\ p.y = Drawn.y_max) =>
                  p.sub = <<0, 0>> /\ Cell(p.sub) = <<0, 0>>
            /\ (p.x = Drawn.x_max /\ p.y = Drawn.y_min) =>
                  /\ p.sub = <<2 * width - 1, 4 * height - 1>>
                  /\ Cell(p.sub) = <<width - 1, height - 1>>

(* ------------------------------ C16 ------------------------------------ *)
TickCount(t) == t.last - t.first + 1

\* every tick i * m * 10^k of t lies within lo..hi, and the tick before
\* the first lies below lo
TicksWithin(t, lo, hi) ==
    IF t.k >= 0
    THEN /\ t.first * t.m * Pow10(t.k) >= lo
         /\ (t.first - 1) * t.m * Pow10(t.k) < lo
         /\ t.last * t.m * Pow10(t.k) <= hi
    ELSE /\ t.first * t.m >= lo * Pow10(-t.k)
         /\ (t.first - 1) * t.m < lo * Pow10(-t.k)
         /\ t.last * t.m <= hi * Pow10(-t.k)

\* the ticks 0, 10, 20, ..., 100 with step 10
TensToHundred == [m |-> 1, k |-> 1, first |-> 0, last |-> 10]

HundredExample ==
    (Drawn.y_min = 0 /\ Drawn.y_max = 100 /\ height = 10) =>
        y_ticks = TensToHundred

Ordered(b) == AllFinite(b) /\ b.x_min < b.x_max /\ b.y_min < b.y_max

PanKeys == {"h", "l", "j", "k"}
PanAxis(k) == IF k \in {"h", "l"} THEN "x" ELSE "y"
PanSign(k) == IF k \in {"h", "j"} THEN -1 ELSE 1

Lo(b, axis) == IF axis = "x" THEN b.x_min ELSE b.y_min
Hi(b, axis) == IF axis = "x" THEN b.x_max ELSE b.y_max
AxisFinite(b, axis) == IsFinite(Lo(b, axis)) /\ IsFinite(Hi(b, axis))
AxisExtent(b, axis) == Hi(b, axis) - Lo(b, axis)
AxisMag(b, axis) == Max2(Abs(Lo(b, axis)), Abs(Hi(b, axis)))

\* the Bounds hist[i], ..., hist[j] are finite on the axis
FiniteRun(i, j, axis) == \A n \in i..j : AxisFinite(hist[n], axis)

\* spacing of the floating-point numbers at the largest magnitude of
\* hist[i], ..., hist[j] on the axis
RunUlp(i, j, axis) ==
    Ulp(CHOOSE m \in {AxisMag(hist[n], axis) : n \in i..j} :
            \A n \in i..j : AxisMag(hist[n], axis) <= m)

\* fiftieths of the extent a pan shifts by after a zoom: 0.08 = 4/50 after
\* zoom-in, 0.12 = 6/50 after zoom-out
ShiftParts(k) == IF k = "u" THEN 4 ELSE 6

\* key i is a zoom and key i + 1 a pan
ZoomThenPan(i) == keys[i] \in {"u", "n"} /\ keys[i + 1] \in PanKeys

\* key i is a reset and key i + 1 a pan
ResetThenPan(i) == keys[i] = "r" /\ keys[i + 1] \in PanKeys

\* the lengths of the zoom-in runs examined
RunLengths == 1..3

\* keys i, ..., i + k - 1 are all zoom-in
ZoomInRun(i, k) == i + k - 1 <= NKeys /\ \A n \in i..(i + k - 1) : keys[n] = "u"

\* C17 as stated: a pan after one zoom-in from extent E shifts by exactly
\* 0.08 E, after one zoom-out by exactly 0.12 E; k consecutive zoom-ins
\* leave exactly the extent 0.8^k E; a pan after a reset shifts by exactly
\* 0.1 of the initial extent.
C17_Original ==
    /\ \A i \in Pairs :
          LET a == PanAxis(keys[i + 1]) IN
          (ZoomThenPan(i) /\ FiniteRun(i, i + 2, a)) =>
              /\ 50 * (Lo(hist[i + 2], a) - Lo(hist[i + 1], a))
                    = PanSign(keys[i + 1]) * ShiftParts(keys[i])
                      * AxisExtent(hist[i], a)
              /\ 50 * (Hi(hist[i + 2], a) - Hi(hist[i + 1], a))
                    = PanSign(keys[i + 1]) * ShiftParts(keys[i])
                      * AxisExtent(hist[i], a)
    /\ \A i \in Steps, k \in RunLengths, a \in {"x", "y"} :
          (ZoomInRun(i, k) /\ FiniteRun(i, i + k, a)) =>
              (5 ^ k) * AxisExtent(hist[i + k], a)
                  = (4 ^ k) * AxisExtent(hist[i], a)
    /\ \A i \in Pairs :
          LET a == PanAxis(keys[i + 1]) IN
          (ResetThenPan(i) /\ FiniteRun(i + 1, i + 2, a)) =>
              /\ 10 * (Lo(hist[i + 2], a) - Lo(hist[i + 1], a))
                    = PanSign(keys[i + 1]) * AxisExtent(hist[1], a)
              /\ 10 * (Hi(hist[i + 2], a) - Hi(hist[i + 1], a))
                    = PanSign(keys[i + 1]) * AxisExtent(hist[1], a)

\* C17: the step follows the current extent, up to rounding. A pan after
\* one zoom-in from extent E shifts each bound by 0.08 E, after one
\* zoom-out by 0.12 E, within 2 ulp; k consecutive zoom-ins leave the
\* extent 0.8^k E within 6 ulp; a pan after a reset shifts each bound by
\* 0.1 of the initial extent within 2 ulp. The ulp is the spacing at the
\* largest magnitude of the bounds involved, which are all finite.
C17_StepFollowsExtent ==
    /\ \A i \in Pairs :
          LET a == PanAxis(keys[i + 1]) IN
          (ZoomThenPan(i) /\ FiniteRun(i, i + 2, a)) =>
              /\ NearFiftieths(Lo(hist[i + 2], a), Lo(hist[i + 1], a),
                               PanSign(keys[i + 1]) * ShiftParts(keys[i]),
                               AxisExtent(hist[i], a), 2, RunUlp(i, i + 2, a))
              /\ NearFiftieths(Hi(hist[i + 2], a), Hi(hist[i + 1], a),
                               PanSign(keys[i + 1]) * ShiftParts(keys[i]),
                               AxisExtent(hist[i], a), 2, RunUlp(i, i + 2, a))
    /\ \A i \in Steps, k \in RunLengths, a \in {"x", "y"} :
          (ZoomInRun(i, k) /\ FiniteRun(i, i + k, a)) =>
              Abs((5 ^ k) * AxisExtent(hist[i + k], a)
                  - (4 ^ k) * AxisExtent(hist[i], a))
                  <= (5 ^ k) * 6 * RunUlp(i, i + k, a)
    /\ \A i \in Pairs :
          LET a == PanAxis(keys[i + 1]) IN
          (ResetThenPan(i) /\ FiniteRun(i + 1, i + 2, a)) =>
              /\ NearTenths(Lo(hist[i + 2], a), Lo(hist[i + 1], a),
                            PanSign(keys[i + 1]), AxisExtent(hist[1], a),
                            2, RunUlp(i + 1, i + 2, a))
              /\ NearTenths(Hi(hist[i + 2], a), Hi(hist[i + 1], a),
                            PanSign(keys[i + 1]), AxisExtent(hist[1], a),
                            2, RunUlp(i + 1, i + 2, a))

\* two zoom-ins and a pan right on finite Bounds: the extent after the
\* zoom-ins is off 0.64 E by rounding, and the pan moved the range right
C17_Witness ==
    /\ keys = <<"u", "u", "l">>
    /\ AllFinite(hist[1]) /\ AllFinite(hist[4])
    /\ 25 * XExtent(hist[3]) # 16 * XExtent(hist[1])
    /\ XExtent(hist[3]) < XExtent(hist[1])
    /\ hist[4].x_min > hist[3].x_min

(* ------------------------------ C18 ------------------------------------ *)
\* C18: in interactive mode renders and key reads alternate, starting with
\* a render; exactly one key is read after each render; the n-th render
\* uses the Bounds obtained by applying the first n - 1 keys to the initial
\* Bounds; the Bounds change only in the key-handling step.
C18_Alternation ==
    interactive =>
        /\ Len(hist) = NKeys + 1 /\ Len(rendered) = renders
        /\ hist[1] = reset_target
        /\ Bounds = hist[NKeys + 1]
        /\ \A i \in Steps : hist[i + 1] = Effect(keys[i], hist[i])
        /\ \A n \in 1..renders : rendered[n].bounds = hist[n]
        /\ pc \in {"validate", "raised", "start"} => renders = 0 /\ NKeys = 0
        /\ pc = "getch" => renders = NKeys + 1
        /\ pc \in {"loop", "done"} => renders = NKeys

\* the third render drew the Bounds that two keys made of the initial ones,
\* and a third key has been read after it
C18_Witness ==
    /\ interactive
    /\ renders = 3 /\ NKeys = 3
    /\ keys[1] = "u" /\ keys[2] = "l"
    /\ rendered[1].bounds = hist[1]
    /\ rendered[3].bounds = Effect("l", Effect("u", hist[1]))
    /\ rendered[3].bounds # rendered[2].bounds
    /\ rendered[2].bounds # rendered[1].bounds

TwiceCentre(b, axis) == Lo(b, axis) + Hi(b, axis)

ZoomKeys == {"u", "n"}

\* C20 as stated: zoom-in and zoom-out leave the midpoints of both ranges
\* exactly unchanged; only pan and reset move the centre.
C20_Original ==
    \A i \in Steps, a \in {"x", "y"} :
        (keys[i] \notin PanKeys \cup {"r"} /\ FiniteRun(i, i + 1, a)) =>
            TwiceCentre(Post(i), a) = TwiceCentre(Pre(i), a)

\* C20: zoom-in and zoom-out keep the centre up to rounding: while the
\* bounds stay finite the midpoint of each range moves by at most 1 ulp
\* (the sum of the two bounds by at most 2 ulp, the ulp taken at the
\* largest magnitude of the bounds before and after the key); a quit or
\* unrecognized key leaves the bounds as they are; only pan and reset move
\* the centre further.
C20_ZoomKeepsCentre ==
    /\ \A i \in Steps, a \in {"x", "y"} :
          (keys[i] \in ZoomKeys /\ FiniteRun(i, i + 1, a)) =>
              Abs(TwiceCentre(Post(i), a) - TwiceCentre(Pre(i), a))
                  <= 2 * RunUlp(i, i + 1, a)
    /\ \A i \in Steps :
          keys[i] \notin PanKeys \cup ZoomKeys \cup {"r"} => Post(i) = Pre(i)

\* a zoom-in on finite Bounds narrowed the x-range and moved its midpoint
\* by rounding, and a zoom-out followed
C20_Witness ==
    /\ NKeys = 2
    /\ keys = <<"u", "n">>
    /\ AllFinite(hist[2]) /\ AllFinite(hist[3])
    /\ XExtent(hist[2]) < XExtent(hist[1])
    /\ TwiceCentre(hist[2], "x") # TwiceCentre(hist[1], "x")
    /\ Abs(TwiceCentre(hist[2], "x") - TwiceCentre(hist[1], "x"))
          <= 2 * RunUlp(1, 2, "x")
====
